---- MODULE Spec2Model ----
(***************************************************************************)
(* Model of scripts/fetch_news.py: a script that fetches an RSS feed,      *)
(* renders its first items as HTML list entries and substitutes them, with *)
(* a timestamp, for two literal markers of index.html.                     *)
(*                                                                         *)
(* Text is modelled as a sequence of tokens.  A token is a string that the *)
(* program treats as an indivisible piece: one character of a description  *)
(* ("a", "<", ">", "."), or a literal of the source that is only ever      *)
(* copied or compared as a whole.  Non-ASCII literals of the source are    *)
(* written in ASCII here; the source literal is quoted in the comment.     *)
(***************************************************************************)
EXTENDS Integers, Sequences, FiniteSets

VARIABLES
    pc,            \* position of the script
    num_items,     \* argument of fetch_bbc_news
    response,      \* what the network answered to requests.get
    news,          \* the list fetch_bbc_news returned
    file,          \* index.html on disk
    html_read,     \* update_index_html: the text read from index.html
    html_content,  \* update_index_html: html_content after the two replacements
    update_time,   \* update_index_html: the formatted timestamp
    now,           \* the wall clock, in runs of the scheduler
    run,           \* number of the current run of the script
    writes,        \* number of times index.html was opened for writing
    raised,        \* the exception that left the script, "none" when none did
    updated,       \* the argument of this run's update_index_html call
    result,        \* how this run's update_index_html ended
    hist           \* history: the first file, the previous run, the first full update

vars == <<pc, num_items, response, news, file, html_read, html_content,
          update_time, now, run, writes, raised, updated, result, hist>>

-----------------------------------------------------------------------------
(* Bounds of the model *)

MaxNumItems == 3
MaxFeedLen == 3
MaxRuns == 2
DescSlack == 1

(* Constants of the program *)

\* desc_elem.text[:100]
TruncLen == 100
\* fetch_bbc_news(5) in __main__
MainNumItems == 5

-----------------------------------------------------------------------------
(* Literals of the program *)

\* '<div id="news"></div>': the opening tag directly followed by the closing tag
DivOpen == "<div id=\"news\">"
DivClose == "</div>"
NewsMarker == <<DivOpen, DivClose>>
\* '<!-- 腳本會插入時間 -->'
TimeMarker == <<"<!-- script inserts time -->">>
\* '無標題'
NoTitle == <<"(no title)">>
\* '#'
NoLink == <<"#">>
\* '無描述'
NoDesc == <<"(no description)">>
\* '...'
Ellipsis == <<".", ".", ".">>
\* '<p>無法載入新聞，請稍後再試。</p>'
Fallback == <<"<p>", "(news unavailable, try again later)", "</p>">>

-----------------------------------------------------------------------------
(* Python string operations *)

Min(a, b) == IF a < b THEN a ELSE b

\* s[:n]
Take(s, n) == SubSeq(s, 1, Min(n, Len(s)))

\* s.startswith(p, i-1)
StartsWithAt(s, i, p) ==
    /\ i + Len(p) - 1 <= Len(s)
    /\ SubSeq(s, i, i + Len(p) - 1) = p

\* p in s
Contains(s, p) == \E i \in 1..Len(s) : StartsWithAt(s, i, p)

\* s.replace(old, new): every non-overlapping occurrence, left to right
RECURSIVE ReplaceFrom(_, _, _, _)
ReplaceFrom(s, i, old, new) ==
    IF i > Len(s) THEN <<>>
    ELSE IF StartsWithAt(s, i, old)
         THEN new \o ReplaceFrom(s, i + Len(old), old, new)
         ELSE <<s[i]>> \o ReplaceFrom(s, i + 1, old, new)

Replace(s, old, new) == ReplaceFrom(s, 1, old, new)

\* position of the first ">" at or after i, 0 when there is none
FirstGt(s, i) ==
    LET gts == {j \in i..Len(s) : s[j] = ">"}
    IN  IF gts = {} THEN 0 ELSE CHOOSE j \in gts : \A k \in gts : j <= k

\* r'<[^>]+>' matches at p: a "<", one or more tokens other than ">", a ">"
TagAt(s, p) == s[p] = "<" /\ FirstGt(s, p + 1) > p + 1

\* start of the leftmost match at or after i, 0 when there is none
NextTag(s, i) ==
    LET starts == {p \in i..Len(s) : TagAt(s, p)}
    IN  IF starts = {} THEN 0 ELSE CHOOSE p \in starts : \A q \in starts : p <= q

\* re.sub(r'<[^>]+>', '', s) from position i: the text up to the leftmost match
\* is kept, the match is dropped, and the scan goes on after it
RECURSIVE StripFrom(_, _)
StripFrom(s, i) ==
    IF NextTag(s, i) = 0 THEN SubSeq(s, i, Len(s))
    ELSE SubSeq(s, i, NextTag(s, i) - 1)
             \o StripFrom(s, FirstGt(s, NextTag(s, i) + 1) + 1)

StripTags(s) == StripFrom(s, 1)

-----------------------------------------------------------------------------
(* The feed: root.findall('.//item') is the sequence of item elements in   *)
(* document order; a child element is absent, or present with a text that  *)
(* is <<>> when the element's text is None or ''.                          *)

NoElem == [present |-> FALSE, text |-> <<>>]
Elem(t) == [present |-> TRUE, text |-> t]
Item(t, l, d) == [title |-> t, link |-> l, description |-> d]

\* mutant: only the title is required
HasTitleOnly(item) == item.title.present

\* title_elem is not None and link_elem is not None
HasTitleAndLink(item) == item.title.present /\ item.link.present

\* title_elem.text or '無標題'
TitleOf(item) == IF item.title.text # <<>> THEN item.title.text ELSE NoTitle

\* link_elem.text or '#'
LinkOf(item) == IF item.link.text # <<>> THEN item.link.text ELSE NoLink

\* mutant: the ellipsis is appended only when the text was cut
RawDescEllipsisWhenCut(item) ==
    IF item.description.present /\ item.description.text # <<>>
    THEN IF Len(item.description.text) > TruncLen
         THEN Take(item.description.text, TruncLen) \o Ellipsis
         ELSE item.description.text
    ELSE NoDesc

\* desc_elem.text[:100] + '...' if desc_elem is not None and desc_elem.text else '無描述'
RawDesc(item) ==
    IF item.description.present /\ item.description.text # <<>>
    THEN Take(item.description.text, TruncLen) \o Ellipsis
    ELSE NoDesc

\* desc after re.sub
DescOf(item) == StripTags(RawDesc(item))

\* f'<li><a href="{link}" target="_blank">{title}</a>: {desc}</li>'
HtmlItem(link, title, desc) ==
    <<"<li><a href=\"">> \o link \o <<"\" target=\"_blank\">">> \o title
        \o <<"</a>: ">> \o desc \o <<"</li>">>

RenderItem(item) == HtmlItem(LinkOf(item), TitleOf(item), DescOf(item))

\* the loop body: append html_item when title and link are present
RECURSIVE ExtractItems(_, _, _)
ExtractItems(selected, i, items) ==
    IF i > Len(selected) THEN items
    ELSE IF HasTitleAndLink(selected[i])
         THEN ExtractItems(selected, i + 1, Append(items, RenderItem(selected[i])))
         ELSE ExtractItems(selected, i + 1, items)

\* root.findall('.//item')[:num_items]
Selected(feed, n) == Take(feed, n)

\* mutant: the items without title or link are dropped before the first n are taken
ExtractFilterFirst(feed, n) == Take(ExtractItems(feed, 1, <<>>), n)

\* the try body of fetch_bbc_news after a successful parse
Extract(feed, n) == ExtractItems(Selected(feed, n), 1, <<>>)

-----------------------------------------------------------------------------
(* Exceptions *)

\* requests.exceptions: Timeout, ConnectionError and HTTPError derive from
\* RequestException
IsRequestException(exc) == exc \in {"Timeout", "ConnectionError", "HTTPError"}

\* the first exception the try body of fetch_bbc_news raises on this response
FetchRaises(resp) ==
    IF resp.net = "timeout" THEN "Timeout"
    ELSE IF resp.net = "refused" THEN "ConnectionError"
    ELSE IF resp.status >= 400 THEN "HTTPError"
    ELSE IF ~resp.wellformed THEN "ParseError"
    ELSE IF resp.fault THEN "RuntimeError"
    ELSE "none"

\* mutant: only the request errors are handled
FetchHandlerRequestOnly(exc) ==
    IF IsRequestException(exc) THEN [caught |-> TRUE, value |-> <<>>]
    ELSE [caught |-> FALSE, value |-> <<>>]

\* the except clauses of fetch_bbc_news: every Exception is caught, [] returned
FetchHandler(exc) ==
    IF IsRequestException(exc) THEN [caught |-> TRUE, value |-> <<>>]
    ELSE IF exc = "ParseError" THEN [caught |-> TRUE, value |-> <<>>]
    ELSE [caught |-> TRUE, value |-> <<>>]

\* mutant: a missing file is not handled
UpdateHandlerNotFoundEscapes(exc) ==
    IF exc = "FileNotFoundError" THEN [caught |-> FALSE, outcome |-> "none"]
    ELSE [caught |-> TRUE, outcome |-> "error"]

\* the except clauses of update_index_html: a message is printed, nothing is raised
UpdateHandler(exc) ==
    IF exc = "FileNotFoundError" THEN [caught |-> TRUE, outcome |-> "notfound"]
    ELSE [caught |-> TRUE, outcome |-> "error"]

-----------------------------------------------------------------------------
(* update_index_html *)

\* datetime.now().strftime('%Y-%m-%d %H:%M:%S (台灣時間)'), the clock counted in days
Stamps == <<"2025-01-01 06:00:00 (Taiwan time)", "2025-01-02 06:00:00 (Taiwan time)",
            "2025-01-03 06:00:00 (Taiwan time)", "2025-01-04 06:00:00 (Taiwan time)">>
strftime(t) == Stamps[t]

\* ''.join(news_items)
RECURSIVE Join(_)
Join(items) == IF items = <<>> THEN <<>> ELSE Head(items) \o Join(Tail(items))

\* Step 2, news_html
NewsHtml(news_items) ==
    IF news_items # <<>>
    THEN <<"<ul>">> \o Join(news_items) \o <<"</ul>">>
    ELSE Fallback

\* mutant: the timestamp is formatted only when there is news
UpdateTimeOnlyWithNews(news_items, t) ==
    IF news_items # <<>> THEN strftime(t) ELSE TimeMarker[1]

\* Step 2, update_time: both branches format the clock the same way
UpdateTime(news_items, t) ==
    IF news_items # <<>> THEN strftime(t) ELSE strftime(t)

\* f'<div id="news">{news_html}</div>'
NewsBlock(news_items) == <<DivOpen>> \o NewsHtml(news_items) \o <<DivClose>>

\* mutant: without the news marker nothing is replaced
SubstituteNewsFirst(html, news_items, t) ==
    IF Contains(html, NewsMarker)
    THEN Replace(Replace(html, NewsMarker, NewsBlock(news_items)),
                 TimeMarker, <<UpdateTime(news_items, t)>>)
    ELSE html

\* mutant: the timestamp is written after the marker, which is kept
SubstituteKeepTimeMarker(html, news_items, t) ==
    Replace(Replace(html, NewsMarker, NewsBlock(news_items)),
            TimeMarker, TimeMarker \o <<UpdateTime(news_items, t)>>)

\* Step 3: the two replacements, the news block first
Substitute(html, news_items, t) ==
    Replace(Replace(html, NewsMarker, NewsBlock(news_items)),
            TimeMarker, <<UpdateTime(news_items, t)>>)

\* mutant: the old text is put back when the write fails
TornFileRestored(old, new, k) == old

\* index.html after a write that failed with k tokens on disk
TornFile(old, new, k) == Take(new, k)

-----------------------------------------------------------------------------
(* Inputs *)

SeqsUpTo(S, n) == UNION {[1..k -> S] : k \in 0..n}

Fill(n) == [i \in 1..n |-> "a"]

T1 == <<"Title one">>
T2 == <<"Title two">>
L1 == <<"http://news/1">>
L2 == <<"http://news/2">>
D1 == <<"a", "b">>

\* items with and without each child element, and with empty texts
BasicItems ==
    { Item(Elem(T1), Elem(L1), Elem(D1)),
      Item(Elem(T2), Elem(L2), Elem(D1)),
      Item(NoElem, Elem(L1), Elem(D1)),
      Item(Elem(T1), NoElem, Elem(D1)),
      Item(Elem(T1), Elem(L1), NoElem),
      Item(Elem(T2), Elem(L2), Elem(<<>>)),
      Item(Elem(<<>>), Elem(<<>>), Elem(D1)),
      Item(NoElem, NoElem, NoElem) }

\* descriptions around the truncation length, with and without tag-shaped parts
DescTexts ==
    { pre \o Fill(n) \o suf :
        pre \in {<<>>, <<"<", "b", ">">>, <<"<", ">">>, <<"<">>},
        n \in {0, 1} \cup ((TruncLen - 3 - DescSlack)..(TruncLen + DescSlack)),
        suf \in {<<>>, <<"<", "b", ">">>, <<">">>} }

\* the feeds fetch_bbc_news is applied to as a function
Feeds ==
    SeqsUpTo(BasicItems, MaxFeedLen)
        \cup {<<Item(Elem(T1), Elem(L1), Elem(d))>> : d \in DescTexts}

\* the feeds of the runs of the whole script: titles may hold marker text
RunItems ==
    { Item(Elem(T1), Elem(L1), NoElem),
      Item(Elem(TimeMarker), Elem(L1), NoElem),
      Item(Elem(NewsMarker), Elem(L1), NoElem),
      Item(NoElem, Elem(L1), NoElem) }

RunFeeds ==
    {<<>>} \cup {<<i>> : i \in RunItems}
        \cup {<<Item(Elem(T1), Elem(L1), NoElem), Item(Elem(T2), Elem(L2), NoElem)>>}

OkResponses(feeds) ==
    { [net |-> "ok", status |-> 200, wellformed |-> TRUE, fault |-> FALSE, items |-> f] :
        f \in feeds }

FailedResponses ==
    { [net |-> "timeout", status |-> 0, wellformed |-> FALSE, fault |-> FALSE, items |-> <<>>],
      [net |-> "refused", status |-> 0, wellformed |-> FALSE, fault |-> FALSE, items |-> <<>>],
      [net |-> "ok", status |-> 500, wellformed |-> FALSE, fault |-> FALSE, items |-> <<>>],
      [net |-> "ok", status |-> 404, wellformed |-> FALSE, fault |-> FALSE, items |-> <<>>],
      [net |-> "ok", status |-> 200, wellformed |-> FALSE, fault |-> FALSE, items |-> <<>>],
      [net |-> "ok", status |-> 200, wellformed |-> TRUE, fault |-> TRUE,
       items |-> <<Item(Elem(T1), Elem(L1), Elem(D1))>>] }

NoResponse ==
    [net |-> "none", status |-> 0, wellformed |-> FALSE, fault |-> FALSE, items |-> <<>>]

\* other text of index.html
H1 == "<h1>News</h1>"

NoFile == [exists |-> FALSE, content |-> <<>>]

\* index.html before the first run: absent, or with both markers, one or none
InitTexts ==
    { <<H1>> \o NewsMarker \o <<H1>> \o TimeMarker,
      NewsMarker \o TimeMarker \o NewsMarker \o TimeMarker,
      <<H1>> \o TimeMarker,
      NewsMarker \o <<H1>>,
      <<DivOpen, H1, DivClose>> \o TimeMarker,
      <<DivOpen>> \o NewsMarker \o <<DivClose>>,
      <<H1>>,
      <<>> }

InitFiles == {NoFile} \cup {[exists |-> TRUE, content |-> c] : c \in InitTexts}

HasMarker(s) == Contains(s, NewsMarker) \/ Contains(s, TimeMarker)
HasBoth(s) == Contains(s, NewsMarker) /\ Contains(s, TimeMarker)
MarkerFree(items) == ~HasMarker(Join(items))

-----------------------------------------------------------------------------
(* The script *)

NotCalled == [called |-> FALSE, items |-> <<>>]
NoResult == [outcome |-> "none", exc |-> "none"]

InitCommon ==
    /\ pc = "fetch"
    /\ response = NoResponse
    /\ news = <<>>
    /\ html_read = <<>>
    /\ html_content = <<>>
    /\ update_time = ""
    /\ now = 1
    /\ run = 1
    /\ writes = 0
    /\ raised = "none"
    /\ updated = NotCalled
    /\ result = NoResult
    /\ hist = [file0 |-> file, prev_news |-> <<>>, prev_result |-> "none",
               consumed |-> FALSE, consumed_run |-> 0, consumed_content |-> <<>>,
               torn |-> FALSE]

\* __main__: fetch_bbc_news(5), index.html absent or any small text
Init ==
    /\ num_items = MainNumItems
    /\ file \in InitFiles
    /\ InitCommon

\* fetch_bbc_news(num_items) applied to any count
InitFetch ==
    /\ num_items \in 1..MaxNumItems
    /\ file = NoFile
    /\ InitCommon

\* news = fetch_bbc_news(num_items)
FetchBbcNews(feeds) ==
    /\ pc = "fetch"
    /\ \E resp \in OkResponses(feeds) \cup FailedResponses :
         LET exc == FetchRaises(resp)
             h == FetchHandler(exc)
         IN  /\ response' = resp
             /\ IF exc = "none"
                THEN news' = Extract(resp.items, num_items) /\ pc' = "update"
                     /\ raised' = raised
                ELSE IF h.caught
                THEN news' = h.value /\ pc' = "update" /\ raised' = raised
                ELSE news' = news /\ pc' = "crashed" /\ raised' = exc
    /\ UNCHANGED <<num_items, file, html_read, html_content, update_time, now, run,
                   writes, updated, result, hist>>

\* an exception raised inside the try block of update_index_html
UpdateRaises(exc) ==
    LET h == UpdateHandler(exc)
    IN  IF h.caught
        THEN result' = [outcome |-> h.outcome, exc |-> exc] /\ pc' = "end"
             /\ raised' = raised
        ELSE result' = result /\ pc' = "crashed" /\ raised' = exc

\* update_index_html(news), Steps 1 to 3: read index.html, build the new text
UpdateRead ==
    /\ pc = "update"
    /\ updated' = [called |-> TRUE, items |-> news]
    /\ \/ /\ ~file.exists
          /\ UpdateRaises("FileNotFoundError")
          /\ UNCHANGED <<html_read, html_content, update_time>>
       \/ /\ file.exists
          /\ UpdateRaises("PermissionError")
          /\ UNCHANGED <<html_read, html_content, update_time>>
       \/ /\ file.exists
          /\ html_read' = file.content
          /\ update_time' = UpdateTime(news, now)
          /\ html_content' = Substitute(file.content, news, now)
          /\ pc' = "open"
          /\ UNCHANGED <<result, raised>>
    /\ UNCHANGED <<num_items, response, news, file, now, run, writes, hist>>

\* Step 4: open('index.html', 'w') truncates the file, or fails
UpdateOpen ==
    /\ pc = "open"
    /\ \/ /\ file' = [exists |-> TRUE, content |-> <<>>]
          /\ writes' = writes + 1
          /\ pc' = "writing"
          /\ UNCHANGED <<result, raised>>
       \/ /\ UpdateRaises("PermissionError")
          /\ UNCHANGED <<file, writes>>
    /\ UNCHANGED <<num_items, response, news, html_read, html_content, update_time,
                   now, run, updated, hist>>

\* Step 4: f.write(html_content) and the close complete
UpdateWrite ==
    /\ pc = "writing"
    /\ file' = [exists |-> TRUE, content |-> html_content]
    /\ result' = [outcome |-> "written", exc |-> "none"]
    /\ pc' = "end"
    /\ hist' = IF ~hist.consumed /\ HasBoth(html_read) /\ MarkerFree(news)
                THEN [hist EXCEPT !.consumed = TRUE, !.consumed_run = run,
                                  !.consumed_content = html_content]
                ELSE hist
    /\ UNCHANGED <<num_items, response, news, html_read, html_content, update_time,
                   now, run, writes, raised, updated>>

\* Step 4: the write fails with k tokens on disk
UpdateWriteFails ==
    /\ pc = "writing"
    /\ \E k \in {0, Len(html_content) \div 2} :
         file' = [exists |-> TRUE, content |-> TornFile(html_read, html_content, k)]
    /\ UpdateRaises("OSError")
    /\ hist' = [hist EXCEPT !.torn = TRUE]
    /\ UNCHANGED <<num_items, response, news, html_read, html_content, update_time,
                   now, run, writes, updated>>

\* the scheduler starts the script again
Rerun ==
    /\ pc = "end"
    /\ run < MaxRuns
    /\ run' = run + 1
    /\ now' = now + 1
    /\ pc' = "fetch"
    /\ response' = NoResponse
    /\ news' = <<>>
    /\ html_read' = <<>>
    /\ html_content' = <<>>
    /\ update_time' = ""
    /\ updated' = NotCalled
    /\ result' = NoResult
    /\ hist' = [hist EXCEPT !.prev_news = news, !.prev_result = result.outcome]
    /\ UNCHANGED <<num_items, file, writes, raised>>

Next ==
    \/ FetchBbcNews(RunFeeds)
    \/ UpdateRead
    \/ UpdateOpen
    \/ UpdateWrite
    \/ UpdateWriteFails
    \/ Rerun

Spec == Init /\ [][Next]_vars

NextFetch == FetchBbcNews(Feeds)

SpecFetch == InitFetch /\ [][NextFetch]_vars

-----------------------------------------------------------------------------
(* Properties of fetch_bbc_news, under SpecFetch *)

\* fetch_bbc_news returned from its try body
Fetched == pc = "update" /\ FetchRaises(response) = "none"

\* the item elements with both a title and a link child, in document order
ValidItems(feed) == SelectSeq(feed, HasTitleAndLink)

\* the number of such items among the first i item elements
Rank(feed, i) == Cardinality({j \in 1..i : HasTitleAndLink(feed[j])})

\* the item has a title element and a link element
item_present(item) == item.title.present /\ item.link.present

HasDescription(item) == item.description.present /\ item.description.text # <<>>

\* C1 as stated: with K the number of item elements that have both a title and a
\* link, fetch_bbc_news(N) returns exactly min(K, N) rendered items, those of the
\* first min(K, N) such items in document order.
C1_MinOfValidAndCount ==
    Fetched =>
        LET valid == ValidItems(response.items)
        IN  news = [i \in 1..Min(Len(valid), num_items) |-> RenderItem(valid[i])]

\* C1 amended: fetch_bbc_news(N) returns the rendered items of those among the
\* FIRST N item elements that have both a title and a link, in document order;
\* their number is at most min(K, N), and is min(K, N) when none of the first N
\* item elements lacks a title or a link.
C1_ValidAmongFirstCount ==
    Fetched =>
        LET first == Take(response.items, num_items)
            valid == ValidItems(first)
            K == Len(ValidItems(response.items))
        IN  /\ news = [i \in 1..Len(valid) |-> RenderItem(valid[i])]
            /\ Len(news) <= Min(K, num_items)
            /\ Len(valid) = Len(first) => Len(news) = Min(K, num_items)

\* an item without a link among the first N, a valid one after them: fewer than
\* min(K, N) items are returned
C1_Witness ==
    /\ Fetched
    /\ Len(response.items) > num_items
    /\ \E i \in 1..num_items : ~HasTitleAndLink(response.items[i])
    /\ HasTitleAndLink(response.items[Len(response.items)])
    /\ Len(news) < Min(Len(ValidItems(response.items)), num_items)

\* C3 as stated: for an item with a non-empty description d, the description
\* part of the rendered item is the first 100 characters of d followed by '...'
\* when len(d) > 100, and d with its tag-shaped substrings removed, without an
\* ellipsis, when len(d) <= 100.
C3_TruncateOnlyLonger ==
    Fetched =>
        \A i \in 1..Min(Len(response.items), num_items) :
            LET item == response.items[i]
                d == item.description.text
            IN  HasTitleAndLink(item) /\ HasDescription(item) =>
                    news[Rank(response.items, i)] =
                        HtmlItem(LinkOf(item), TitleOf(item),
                                 IF Len(d) > TruncLen
                                 THEN SubSeq(d, 1, TruncLen) \o Ellipsis
                                 ELSE StripTags(d))

\* C3 amended: for an item with a non-empty description d of any length, the
\* description part is the first 100 characters of d (all of d when it is
\* shorter) followed by '...', with the tag-shaped substrings of that whole
\* string then removed: the ellipsis is appended to short descriptions too, and
\* tags are removed from truncated descriptions too.
C3_EllipsisAlwaysThenStrip ==
    Fetched =>
        \A i \in 1..Min(Len(response.items), num_items) :
            LET item == response.items[i]
                d == item.description.text
                cut == IF Len(d) > TruncLen THEN SubSeq(d, 1, TruncLen) ELSE d
            IN  HasTitleAndLink(item) /\ HasDescription(item) =>
                    news[Rank(response.items, i)] =
                        HtmlItem(LinkOf(item), TitleOf(item),
                                 StripTags(cut \o Ellipsis))

\* a description of at most 100 characters rendered with the ellipsis
C3_Witness ==
    /\ Fetched
    /\ Len(response.items) = 1
    /\ HasTitleAndLink(response.items[1])
    /\ HasDescription(response.items[1])
    /\ Len(response.items[1].description.text) = TruncLen
    /\ news = <<HtmlItem(L1, T1, response.items[1].description.text \o Ellipsis)>>

\* C4: among the first N item elements, an item without a title element or
\* without a link element contributes no rendered string, and an item with both
\* but with no description element, or an empty one, contributes exactly one
\* rendered string, whose description is the placeholder.
C4_OmittedOrPlaceholder ==
    Fetched =>
        LET first == Take(response.items, num_items)
        IN  /\ Len(news) = Cardinality({i \in 1..Len(first) :
                                item_present(first[i])})
            /\ \A i \in 1..Len(first) :
                   item_present(first[i]) /\ ~HasDescription(first[i]) =>
                       news[Rank(first, i)] =
                           HtmlItem(LinkOf(first[i]), TitleOf(first[i]), NoDesc)

\* an item without a title and an item without a description among the first N
C4_Witness ==
    /\ Fetched
    /\ \E i, j \in 1..Min(Len(response.items), num_items) :
         /\ ~response.items[i].title.present
         /\ response.items[j].title.present /\ response.items[j].link.present
         /\ ~response.items[j].description.present
         /\ i < j
    /\ Len(news) = 1

-----------------------------------------------------------------------------
(* Properties of the whole script, under Spec *)

\* the try body of fetch_bbc_news raised on this run's response
FetchFailed == response.net # "none" /\ FetchRaises(response) # "none"

\* this run's update_index_html wrote index.html completely
Written == pc = "end" /\ result.outcome = "written"

\* this run's write failed after index.html was opened for writing
WriteFailed == pc = "end" /\ result.exc = "OSError"

IsPrefix(p, s) == Len(p) <= Len(s) /\ SubSeq(s, 1, Len(p)) = p

\* C2 as stated: from a file with both markers, after update_index_html(A) and
\* then update_index_html(B) with A # B, the news region holds the content built
\* from B and nothing of the content built from A.
C2_SecondUpdateReplacesFirst ==
    ( /\ Written
      /\ run = 2
      /\ hist.prev_result = "written"
      /\ HasBoth(hist.file0.content)
      /\ hist.prev_news # updated.items )
    => /\ Contains(file.content, NewsBlock(updated.items))
       /\ ~Contains(file.content, NewsHtml(hist.prev_news))

\* C5: whichever failure occurs in the fetch stage, fetch_bbc_news returns the
\* empty list and no exception leaves it; update_index_html is then called with the
\* empty list, and the run can always take its next step until it has ended.
C5_FetchFailureAbsorbed ==
    FetchFailed =>
        /\ news = <<>>
        /\ raised = "none"
        /\ pc \in {"update", "open", "writing", "end"}
        /\ pc # "update" => updated = [called |-> TRUE, items |-> <<>>]
        /\ pc # "end" => ENABLED Next

\* malformed XML, and the run ended with the fallback message written
C5_Witness ==
    /\ FetchRaises(response) = "ParseError"
    /\ Written
    /\ updated = [called |-> TRUE, items |-> <<>>]
    /\ Contains(file.content, Fallback)

\* C6: with both markers in the file and an empty list, after update_index_html
\* the news container holds the fallback message and no list container, and the
\* timestamp marker is replaced by the timestamp in the format of the non-empty
\* case.
C6_FallbackAndTimestamp ==
    (Written /\ updated.items = <<>> /\ HasBoth(html_read)) =>
        /\ file.content =
               Replace(Replace(html_read, NewsMarker, <<DivOpen>> \o Fallback \o <<DivClose>>),
                       TimeMarker, <<strftime(now)>>)
        /\ Contains(file.content, <<DivOpen>> \o Fallback \o <<DivClose>>)
        /\ ~Contains(file.content, <<"<ul>">>)
        /\ ~Contains(file.content, TimeMarker)
        /\ Contains(file.content, <<strftime(now)>>)
        /\ update_time = strftime(now)

\* an empty list after a timeout, written to a file with both markers
C6_Witness ==
    /\ Written
    /\ updated.items = <<>>
    /\ HasBoth(html_read)
    /\ FetchRaises(response) = "Timeout"
    /\ file.content # html_read

\* C7: the two substitutions are independent.  Without the news marker and with
\* the timestamp marker, the file after the update differs from the file before
\* only in each timestamp marker being replaced by the timestamp; without the
\* timestamp marker the news marker is still substituted; without both the file
\* is written back unchanged and nothing is raised.
C7_IndependentSubstitutions ==
    Written =>
        /\ (~Contains(html_read, NewsMarker) /\ Contains(html_read, TimeMarker)) =>
               /\ Len(file.content) = Len(html_read)
               /\ \A i \in 1..Len(html_read) :
                      file.content[i] =
                          IF html_read[i] = TimeMarker[1] THEN strftime(now)
                          ELSE html_read[i]
        /\ (Contains(html_read, NewsMarker) /\ ~Contains(html_read, TimeMarker)) =>
               /\ file.content # html_read
               /\ MarkerFree(updated.items) =>
                      file.content =
                          Replace(html_read, NewsMarker,
                                  <<DivOpen>> \o NewsHtml(updated.items) \o <<DivClose>>)
        /\ ~HasMarker(html_read) => (file.content = html_read /\ raised = "none")

\* a file with the timestamp marker only, updated with a non-empty list
C7_Witness ==
    /\ Written
    /\ ~Contains(html_read, NewsMarker)
    /\ Contains(html_read, TimeMarker)
    /\ updated.items # <<>>
    /\ file.content # html_read

\* C8: when index.html does not exist, update_index_html writes nothing (no file
\* is created), no exception leaves it, and the run goes on to its end.
C8_MissingFileNoWrite ==
    ~hist.file0.exists =>
        /\ file = NoFile
        /\ writes = 0
        /\ raised = "none"
        /\ pc \in {"fetch", "update", "end"}
        /\ (pc = "end") => (result.outcome = "notfound" /\ updated.called)
        /\ pc # "end" => ENABLED Next

\* the file is missing and the run has ended, with news fetched
C8_Witness ==
    /\ pc = "end"
    /\ ~file.exists
    /\ result.exc = "FileNotFoundError"
    /\ updated.items # <<>>

\* C9: the write-back is not atomic.  When the write fails after index.html was
\* opened for writing, the failure is absorbed, the run ends, and the file holds
\* what the failed write left, a prefix of the new text: the text read before is
\* not put back.
C9_FailedWriteLeavesPrefix ==
    WriteFailed =>
        /\ raised = "none"
        /\ file.exists
        /\ IsPrefix(file.content, html_content)
        /\ ~IsPrefix(html_read, html_content) => file.content # html_read

\* the run has ended and the file holds neither the old nor the new text
C9_Witness ==
    /\ WriteFailed
    /\ raised = "none"
    /\ file.content # html_read
    /\ file.content # html_content
    /\ html_read # html_content

\* C10: update_index_html consumes its markers.  After a complete update of a
\* file with both markers, with items free of marker text, the file holds no
\* marker; every later complete update writes back the text it read, and as long
\* as no write fails the file keeps the text of that first update.
C10_MarkersConsumed ==
    /\ (Written /\ HasBoth(html_read) /\ MarkerFree(updated.items)) =>
           ~HasMarker(file.content)
    /\ (Written /\ hist.consumed /\ hist.consumed_run < run) =>
           file.content = html_read
    /\ (hist.consumed /\ ~hist.torn /\ pc # "writing") =>
           file.content = hist.consumed_content

\* a second complete update, with other items, that changed nothing
C10_Witness ==
    /\ Written
    /\ hist.consumed
    /\ hist.consumed_run < run
    /\ updated.items # <<>>
    /\ MarkerFree(updated.items)
    /\ updated.items # hist.prev_news
    /\ file.content = html_read
    /\ file.content = hist.consumed_content

====
